---- MODULE Spec2Model ----
(***************************************************************************)
(* A model of the hot/cold B-tree index: the minimum-degree B-tree of      *)
(* btree.c (OrderedTree) and the two-tier index of hctree.c (TieredIndex). *)
(*                                                                         *)
(* A node is a record [keys, values, children, leaf]: keys and values are  *)
(* the slots 0..nkeys-1 of the C arrays (nkeys is Len(keys)), children the *)
(* slots 0..nkeys of an internal node.  The C code never reads a slot at   *)
(* or beyond nkeys (children: beyond nkeys) before writing it, so the      *)
(* stale contents of those slots are not part of the state.  Sequences are *)
(* 1-based: C's keys[i] is keys[i+1] here.  Tree and node pointers are     *)
(* never NULL here (bt_create and bt_new_node always return a node, and an *)
(* internal node has its nkeys+1 children), so the `!tree`, `!tree->root`  *)
(* and `!node` early returns are never taken; the stats pointer is always  *)
(* given, so every node entered is counted.                                *)
(***************************************************************************)
EXTENDS Integers, Sequences, FiniteSets, TLC

\* ------------------------------------------------------------------ bounds
\* MaxBuild: the build loops insert up to MaxBuild of the keys 0..MaxBuild
\* MaxInserts: bt_insert calls made on the stand-alone tree after its build
\* MaxPayload: the payloads passed to insert calls are 1..MaxPayload
\* MaxDegree: the trees are created with minimum degree 2..MaxDegree
\* MaxSpan: the range scans have hi - lo <= MaxSpan
\* MaxKey: the max_key the HCIndex is created with
\* MaxOps: HCIndex calls made after the build and the first queries
\* MaxQueries: iterations of the query loop in a run of the driver
MaxBuild == 9
MaxInserts == 1
MaxPayload == 2
MaxDegree == 3
MaxSpan == 3
MaxKey == 3
MaxOps == 2
MaxQueries == 3

\* the absent sentinel: bt_search "returns payload or NULL if not found"
NULL == 0

\* the minimum degrees t the trees are created with (t >= 2)
Degrees == 2..MaxDegree
\* keys handed to the OrderedTree operations
BTKeys == 0..MaxBuild
\* bounds handed to the range scans: windows of at most MaxSpan + 1 keys, and empty ones
BTRanges == {w \in BTKeys \X BTKeys : w[2] - w[1] \in (0 - 1)..MaxSpan}
\* payloads handed to insert (pointer values; 0 is NULL)
Payloads == 1..MaxPayload
\* keys handed to the TieredIndex operations: [0, max_key] and one key out of range on each side
HCKeys == (0 - 1)..(MaxKey + 1)
HCRanges == {w \in HCKeys \X HCKeys : w[2] - w[1] \in (0 - 1)..MaxSpan}

\* The doubles of HCParams and hit_score are modelled as exact fractions <<numerator,
\* denominator>> in lowest terms.  The configurations below are dyadic and the scores
\* they produce need few bits, so the double arithmetic of the code is exact on them.
Alphas == {<<0, 1>>, <<1, 2>>, <<1, 1>>}
Thresholds == {<<1, 1>>, <<3, 2>>}
Fractions == {<<0, 1>>, <<3, 8>>, <<1, 1>>}

VARIABLES
    bt,       \* the stand-alone BTree of the baseline mode: [root, t]
    call,     \* the last library call: its arguments and, for an insert, the key count before it
    ret,      \* what the last call returned, when it was a search (else NULL)
    emitted,  \* the callback invocations <<k, v>> of the last call, in order, when it was a range scan
    nins,     \* history: per key, how many insert calls named it
    lastv,    \* history: per key, the payload of the last insert call naming it
    ninserts, \* number of bt_insert calls made after the build
    idx,      \* the HCIndex: [hot, cold, max_key, hit_score, params, stats]
    ncalls    \* number of HCIndex calls made after the build and the first queries

vars == <<bt, call, ret, emitted, nins, lastv, ninserts, idx, ncalls>>

\* ------------------------------------------------------------ btree.c
bt_new_node(leaf) ==
    [keys |-> <<>>, values |-> <<>>, children |-> <<>>, leaf |-> leaf]

\* a BTree is a record [root, t]
bt_create(t) == [root |-> bt_new_node(TRUE), t |-> t]

\* `int i = 0; while (i < node->nkeys && k > node->keys[i]) i++;`  (C's i)
ScanUp(keys, k) ==
    CHOOSE i \in 0..Len(keys) :
        /\ \A j \in 1..i : k > keys[j]
        /\ (i = Len(keys) \/ ~(k > keys[i + 1]))

\* `int i = x->nkeys - 1; while (i >= 0 && k < x->keys[i]) i--;`  (C's i)
ScanDown(keys, k) ==
    CHOOSE i \in (0 - 1)..(Len(keys) - 1) :
        /\ \A j \in (i + 2)..Len(keys) : k < keys[j]
        /\ (i = 0 - 1 \/ ~(k < keys[i + 1]))

RECURSIVE bt_search_node(_, _)
bt_search_node(node, k) ==
    LET i == ScanUp(node.keys, k)
    IN  IF i < Len(node.keys) /\ k = node.keys[i + 1]
        THEN [v |-> node.values[i + 1], visits |-> 1]
        ELSE IF node.leaf
             THEN [v |-> NULL, visits |-> 1]
             ELSE LET r == bt_search_node(node.children[i + 1], k)
                  IN  [v |-> r.v, visits |-> r.visits + 1]

\* the payload returned and the node visits added to *stats
bt_search(tree, k) == bt_search_node(tree.root, k)

\* Split the full child y = x->children[i] of x (i is C's index).
bt_split_child(x, i, t) ==
    LET y == x.children[i + 1]
        z == [keys     |-> SubSeq(y.keys, t + 1, 2 * t - 1),
              values   |-> SubSeq(y.values, t + 1, 2 * t - 1),
              children |-> IF y.leaf THEN <<>> ELSE SubSeq(y.children, t + 1, 2 * t),
              leaf     |-> y.leaf]
        y2 == [keys     |-> SubSeq(y.keys, 1, t - 1),
               values   |-> SubSeq(y.values, 1, t - 1),
               children |-> IF y.leaf THEN <<>> ELSE SubSeq(y.children, 1, t),
               leaf     |-> y.leaf]
        n == Len(x.keys)
    IN  [keys     |-> SubSeq(x.keys, 1, i) \o <<y.keys[t]>> \o SubSeq(x.keys, i + 1, n),
         values   |-> SubSeq(x.values, 1, i) \o <<y.values[t]>> \o SubSeq(x.values, i + 1, n),
         children |-> SubSeq(x.children, 1, i) \o <<y2, z>> \o SubSeq(x.children, i + 2, n + 1),
         leaf     |-> x.leaf]

\* The slots 0..nkeys-1 of a leaf array after the scan loop of bt_insert_nonfull has
\* stopped at C's index i: the loop copied slot j to slot j+1 for every j > i, so slot
\* i+1 keeps its entry, which slot i+2 now repeats, and the last entry has moved to
\* slot nkeys.
Shifted(s, i) ==
    [q \in 1..Len(s) |-> IF q <= i + 2 THEN s[q] ELSE s[q - 1]]

\* In a leaf the scan shifts the entries as it goes.  When it stops on a key equal to
\* k the code stores v and returns with the shifts in place and nkeys as it was.
RECURSIVE bt_insert_nonfull(_, _, _, _)
bt_insert_nonfull(x, k, v, t) ==
    LET i == ScanDown(x.keys, k)
        n == Len(x.keys)
    IN  IF x.leaf
        THEN IF i >= 0 /\ x.keys[i + 1] = k
             THEN [x EXCEPT !.keys = Shifted(x.keys, i),
                            !.values = [Shifted(x.values, i) EXCEPT ![i + 1] = v]]
             ELSE [x EXCEPT !.keys = SubSeq(x.keys, 1, i + 1) \o <<k>> \o SubSeq(x.keys, i + 2, n),
                            !.values = SubSeq(x.values, 1, i + 1) \o <<v>> \o SubSeq(x.values, i + 2, n)]
        ELSE LET c  == i + 1
                 x2 == IF Len(x.children[c + 1].keys) = 2 * t - 1
                       THEN bt_split_child(x, c, t)
                       ELSE x
                 c2 == IF Len(x.children[c + 1].keys) = 2 * t - 1 /\ k > x2.keys[c + 1]
                       THEN c + 1
                       ELSE c
             IN  [x2 EXCEPT !.children[c2 + 1] = bt_insert_nonfull(x2.children[c2 + 1], k, v, t)]

\* bt_insert without the split of a full root
bt_insert_nosplit(tree, k, v) ==
    [tree EXCEPT !.root = bt_insert_nonfull(tree.root, k, v, tree.t)]

bt_insert(tree, k, v) ==
    LET r == tree.root
        t == tree.t
    IN  IF Len(r.keys) = 2 * t - 1
        THEN LET s == [bt_new_node(FALSE) EXCEPT !.children = <<r>>]
             IN  [tree EXCEPT !.root = bt_insert_nonfull(bt_split_child(s, 0, t), k, v, t)]
        ELSE [tree EXCEPT !.root = bt_insert_nonfull(r, k, v, t)]

\* The body of bt_range_node's for loop from index i on (C's i), and what follows it.
\* The result is the callback invocations in order and the number of nodes entered.
RECURSIVE bt_range_node(_, _, _), bt_range_from(_, _, _, _)
None == [out |-> <<>>, visits |-> 0]
Then(a, b) == [out |-> a.out \o b.out, visits |-> a.visits + b.visits]

bt_range_from(node, i, lo, hi) ==
    IF i < Len(node.keys)
    THEN LET key   == node.keys[i + 1]
             first == IF ~node.leaf /\ lo <= key
                      THEN bt_range_node(node.children[i + 1], lo, hi)
                      ELSE None
             cb    == IF key >= lo /\ key <= hi
                      THEN [out |-> <<(<<key, node.values[i + 1]>>)>>, visits |-> 0]
                      ELSE None
         IN  IF key > hi
             THEN Then(Then(first, cb),
                       IF ~node.leaf
                       THEN bt_range_node(node.children[i + 1], lo, hi)
                       ELSE None)
             ELSE Then(Then(first, cb), bt_range_from(node, i + 1, lo, hi))
    ELSE IF ~node.leaf
         THEN bt_range_node(node.children[i + 1], lo, hi)
         ELSE None

bt_range_node(node, lo, hi) ==
    Then([out |-> <<>>, visits |-> 1], bt_range_from(node, 0, lo, hi))

bt_range_search(tree, lo, hi) == bt_range_node(tree.root, lo, hi)

RECURSIVE bt_count_keys_node(_), SumCounts(_, _)
SumCounts(children, i) ==
    IF i > Len(children) THEN 0
    ELSE bt_count_keys_node(children[i]) + SumCounts(children, i + 1)

bt_count_keys_node(node) ==
    Len(node.keys) + (IF node.leaf THEN 0 ELSE SumCounts(node.children, 1))

bt_count_keys(tree) == bt_count_keys_node(tree.root)

\* ------------------------------------------------------------ hctree.c
RECURSIVE Gcd(_, _)
Gcd(a, b) == IF b = 0 THEN a ELSE Gcd(b, a % b)
Frac(n, d) == LET g == Gcd(n, d) IN <<n \div g, d \div g>>
\* a >= b for fractions with positive denominators
Ge(a, b) == a[1] * b[2] >= b[1] * a[2]
\* Decay without the `+ 1.0`
Decay_noinc(alpha, old) == Frac(alpha[1] * old[1], alpha[2] * old[2])

\* `idx->params.decay_alpha * old + 1.0`
Decay(alpha, old) == Frac(alpha[1] * old[1] + alpha[2] * old[2], alpha[2] * old[2])

ZeroStats ==
    [queries |-> 0, hot_hits |-> 0, cold_hits |-> 0, not_found |-> 0,
     hot_node_visits |-> 0, cold_node_visits |-> 0]

hc_create(max_key, btree_degree, params) ==
    [hot       |-> bt_create(btree_degree),
     cold      |-> bt_create(btree_degree),
     max_key   |-> max_key,
     hit_score |-> [k \in 0..max_key |-> <<0, 1>>],
     params    |-> params,
     stats     |-> ZeroStats]

\* hc_insert with the range test `k <= 0`: key 0 is rejected
hc_insert_reject0(i, k, v) ==
    IF k <= 0 \/ k > i.max_key
    THEN i
    ELSE [i EXCEPT !.cold = bt_insert(i.cold, k, v)]

\* hc_insert without the range test
hc_insert_norange(i, k, v) ==
    [i EXCEPT !.cold = bt_insert(i.cold, k, v)]

\* hc_insert that also clears the score of the key
hc_insert_scored(i, k, v) ==
    IF k < 0 \/ k > i.max_key
    THEN i
    ELSE [i EXCEPT !.cold = bt_insert(i.cold, k, v), !.hit_score[k] = <<0, 1>>]

hc_insert(i, k, v) ==
    IF k < 0 \/ k > i.max_key
    THEN i
    ELSE [i EXCEPT !.cold = bt_insert(i.cold, k, v)]

\* maybe_promote without the capacity test
maybe_promote_nocap(i, k) ==
    IF ~i.params.inclusive
    THEN i
    ELSE LET existing   == bt_search(i.hot, k).v
             v          == bt_search(i.cold, k).v
         IN  IF existing # NULL THEN i
             ELSE IF v = NULL THEN i
             ELSE [i EXCEPT !.hot = bt_insert(i.hot, k, v)]

\* maybe_promote that replaces the entry of a key already in hot
maybe_promote_evict(i, k) ==
    IF ~i.params.inclusive
    THEN i
    ELSE LET total_keys == i.max_key + 1
             hot_keys   == bt_count_keys(i.hot)
             f          == i.params.max_hot_fraction
             full       == hot_keys * f[2] >= f[1] * total_keys
             v          == bt_search(i.cold, k).v
         IN  IF v = NULL THEN i
             ELSE IF full
                  THEN [i EXCEPT !.hot = bt_insert(bt_create(i.hot.t), k, v)]
                  ELSE [i EXCEPT !.hot = bt_insert(i.hot, k, v)]

\* maybe_promote that stores a payload other than the one cold holds
maybe_promote_keyed(i, k) ==
    IF ~i.params.inclusive
    THEN i
    ELSE LET total_keys == i.max_key + 1
             hot_keys   == bt_count_keys(i.hot)
             f          == i.params.max_hot_fraction
             full       == hot_keys * f[2] >= f[1] * total_keys
             existing   == bt_search(i.hot, k).v
             v          == bt_search(i.cold, k).v
         IN  IF full THEN i
             ELSE IF existing # NULL THEN i
             ELSE IF v = NULL THEN i
             ELSE [i EXCEPT !.hot = bt_insert(i.hot, k, v + 1)]

maybe_promote(i, k) ==
    IF ~i.params.inclusive
    THEN i
    ELSE LET total_keys == i.max_key + 1
             hot_keys   == bt_count_keys(i.hot)
             f          == i.params.max_hot_fraction
             \* (double)hot_keys >= max_hot_fraction * (double)total_keys
             full       == hot_keys * f[2] >= f[1] * total_keys
             existing   == bt_search(i.hot, k).v
             v          == bt_search(i.cold, k).v
         IN  IF full THEN i
             ELSE IF existing # NULL THEN i
             ELSE IF v = NULL THEN i
             ELSE [i EXCEPT !.hot = bt_insert(i.hot, k, v)]

\* hc_search that does not count a miss in not_found
hc_search_nomiss(i, k) ==
    LET h  == bt_search(i.hot, k)
        i1 == [i EXCEPT !.stats.queries = @ + 1,
                        !.stats.hot_node_visits = @ + h.visits]
        inrange == k >= 0 /\ k <= i.max_key
    IN  IF h.v # NULL
        THEN LET i2 == [i1 EXCEPT !.stats.hot_hits = @ + 1]
             IN  [idx |-> IF inrange
                          THEN [i2 EXCEPT !.hit_score[k] = Decay(i.params.decay_alpha, @)]
                          ELSE i2,
                  ret |-> h.v]
        ELSE LET c  == bt_search(i1.cold, k)
                 i2 == [i1 EXCEPT !.stats.cold_node_visits = @ + c.visits]
             IN  IF c.v # NULL
                 THEN LET i3 == [i2 EXCEPT !.stats.cold_hits = @ + 1]
                      IN  IF inrange
                          THEN LET new_score == Decay(i.params.decay_alpha, i3.hit_score[k])
                                   i4 == [i3 EXCEPT !.hit_score[k] = new_score]
                               IN  [idx |-> IF Ge(new_score, i.params.hot_threshold)
                                            THEN maybe_promote(i4, k)
                                            ELSE i4,
                                    ret |-> c.v]
                          ELSE [idx |-> i3, ret |-> c.v]
                 ELSE [idx |-> i2, ret |-> NULL]

\* hc_search that probes cold before it looks at the result of the hot probe
hc_search_bothprobes(i, k) ==
    LET h  == bt_search(i.hot, k)
        c  == bt_search(i.cold, k)
        i1 == [i EXCEPT !.stats.queries = @ + 1,
                        !.stats.hot_node_visits = @ + h.visits,
                        !.stats.cold_node_visits = @ + c.visits]
        inrange == k >= 0 /\ k <= i.max_key
    IN  IF h.v # NULL
        THEN LET i2 == [i1 EXCEPT !.stats.hot_hits = @ + 1]
             IN  [idx |-> IF inrange
                          THEN [i2 EXCEPT !.hit_score[k] = Decay(i.params.decay_alpha, @)]
                          ELSE i2,
                  ret |-> h.v]
        ELSE IF c.v # NULL
             THEN LET i3 == [i1 EXCEPT !.stats.cold_hits = @ + 1]
                  IN  IF inrange
                      THEN LET new_score == Decay(i.params.decay_alpha, i3.hit_score[k])
                               i4 == [i3 EXCEPT !.hit_score[k] = new_score]
                           IN  [idx |-> IF Ge(new_score, i.params.hot_threshold)
                                        THEN maybe_promote(i4, k)
                                        ELSE i4,
                                ret |-> c.v]
                      ELSE [idx |-> i3, ret |-> c.v]
             ELSE [idx |-> [i1 EXCEPT !.stats.not_found = @ + 1], ret |-> NULL]

\* The node_visits that the bt_search calls of maybe_promote record in their BTStats
\* s and s2, which the function drops on return.
maybe_promote_visits(i, k) ==
    IF ~i.params.inclusive
    THEN 0
    ELSE LET total_keys == i.max_key + 1
             hot_keys   == bt_count_keys(i.hot)
             f          == i.params.max_hot_fraction
             full       == hot_keys * f[2] >= f[1] * total_keys
             s          == bt_search(i.hot, k)
             s2         == bt_search(i.cold, k)
         IN  IF full THEN 0
             ELSE IF s.v # NULL THEN s.visits
             ELSE s.visits + s2.visits

\* The node_visits recorded by every BTStats in use during hc_search(i, k): hot_s,
\* cold_s and, when the call reaches maybe_promote, its s and s2.
hc_search_node_visits(i, k) ==
    LET h == bt_search(i.hot, k)
        c == bt_search(i.cold, k)
        inrange == k >= 0 /\ k <= i.max_key
    IN  IF h.v # NULL THEN h.visits
        ELSE IF c.v # NULL /\ inrange
                  /\ Ge(Decay(i.params.decay_alpha, i.hit_score[k]), i.params.hot_threshold)
             THEN h.visits + c.visits + maybe_promote_visits(i, k)
             ELSE h.visits + c.visits

\* the index after the call and the payload returned
hc_search(i, k) ==
    LET h  == bt_search(i.hot, k)
        i1 == [i EXCEPT !.stats.queries = @ + 1,
                        !.stats.hot_node_visits = @ + h.visits]
        inrange == k >= 0 /\ k <= i.max_key
    IN  IF h.v # NULL
        THEN LET i2 == [i1 EXCEPT !.stats.hot_hits = @ + 1]
             IN  [idx |-> IF inrange
                          THEN [i2 EXCEPT !.hit_score[k] = Decay(i.params.decay_alpha, @)]
                          ELSE i2,
                  ret |-> h.v]
        ELSE LET c  == bt_search(i1.cold, k)
                 i2 == [i1 EXCEPT !.stats.cold_node_visits = @ + c.visits]
             IN  IF c.v # NULL
                 THEN LET i3 == [i2 EXCEPT !.stats.cold_hits = @ + 1]
                      IN  IF inrange
                          THEN LET new_score == Decay(i.params.decay_alpha, i3.hit_score[k])
                                   i4 == [i3 EXCEPT !.hit_score[k] = new_score]
                               IN  [idx |-> IF Ge(new_score, i.params.hot_threshold)
                                            THEN maybe_promote(i4, k)
                                            ELSE i4,
                                    ret |-> c.v]
                          ELSE [idx |-> i3, ret |-> c.v]
                 ELSE [idx |-> [i2 EXCEPT !.stats.not_found = @ + 1], ret |-> NULL]

\* An HCRangeCtx is [seen, out, max_key]: seen[k] as in the code, out the user
\* callback's invocations so far.
hc_range_cb_hot(ctx, k, v) ==
    IF k < 0 \/ k > ctx.max_key THEN ctx
    ELSE IF ctx.seen[k] = 0
         THEN [ctx EXCEPT !.seen[k] = 1, !.out = Append(@, <<k, v>>)]
         ELSE ctx

\* hc_range_cb_cold without the test of seen[k]
hc_range_cb_cold_nodedup(ctx, k, v) ==
    IF k < 0 \/ k > ctx.max_key THEN ctx
    ELSE [ctx EXCEPT !.seen[k] = 1, !.out = Append(@, <<k, v>>)]

hc_range_cb_cold(ctx, k, v) ==
    IF k < 0 \/ k > ctx.max_key THEN ctx
    ELSE IF ctx.seen[k] = 0
         THEN [ctx EXCEPT !.seen[k] = 1, !.out = Append(@, <<k, v>>)]
         ELSE ctx

\* the callbacks of one bt_range_search, in the order the tree made them
RECURSIVE FeedHot(_, _), FeedCold(_, _)
FeedHot(calls, ctx) ==
    IF calls = <<>> THEN ctx
    ELSE FeedHot(Tail(calls), hc_range_cb_hot(ctx, Head(calls)[1], Head(calls)[2]))
FeedCold(calls, ctx) ==
    IF calls = <<>> THEN ctx
    ELSE FeedCold(Tail(calls), hc_range_cb_cold(ctx, Head(calls)[1], Head(calls)[2]))

\* hc_range_search that counts itself as a query
hc_range_search_query(i, lo, hi) ==
    LET ctx0  == [seen |-> [k \in 0..i.max_key |-> 0], out |-> <<>>, max_key |-> i.max_key]
        hot_s == bt_range_search(i.hot, lo, hi)
        ctx1  == FeedHot(hot_s.out, ctx0)
        cold_s == bt_range_search(i.cold, lo, hi)
        ctx2  == FeedCold(cold_s.out, ctx1)
    IN  [idx |-> [i EXCEPT !.stats.hot_node_visits = @ + hot_s.visits,
                           !.stats.cold_node_visits = @ + cold_s.visits,
                           !.stats.queries = @ + 1],
         out |-> ctx2.out]

\* hc_range_search that scans cold before hot
hc_range_search_coldfirst(i, lo, hi) ==
    LET ctx0  == [seen |-> [k \in 0..i.max_key |-> 0], out |-> <<>>, max_key |-> i.max_key]
        cold_s == bt_range_search(i.cold, lo, hi)
        ctx1  == FeedCold(cold_s.out, ctx0)
        hot_s == bt_range_search(i.hot, lo, hi)
        ctx2  == FeedHot(hot_s.out, ctx1)
    IN  [idx |-> [i EXCEPT !.stats.hot_node_visits = @ + hot_s.visits,
                           !.stats.cold_node_visits = @ + cold_s.visits],
         out |-> ctx2.out]

\* the index after the call and the user callback's invocations
hc_range_search(i, lo, hi) ==
    LET ctx0  == [seen |-> [k \in 0..i.max_key |-> 0], out |-> <<>>, max_key |-> i.max_key]
        hot_s == bt_range_search(i.hot, lo, hi)
        ctx1  == FeedHot(hot_s.out, ctx0)
        cold_s == bt_range_search(i.cold, lo, hi)
        ctx2  == FeedCold(cold_s.out, ctx1)
    IN  [idx |-> [i EXCEPT !.stats.hot_node_visits = @ + hot_s.visits,
                           !.stats.cold_node_visits = @ + cold_s.visits],
         out |-> ctx2.out]

hc_get_stats(i) ==
    [queries |-> i.stats.queries, hot_hits |-> i.stats.hot_hits,
     cold_hits |-> i.stats.cold_hits, not_found |-> i.stats.not_found,
     hot_node_visits |-> i.stats.hot_node_visits,
     cold_node_visits |-> i.stats.cold_node_visits,
     hot_keys |-> bt_count_keys(i.hot), cold_keys |-> bt_count_keys(i.cold)]

\* ------------------------------------------------------------ main.c
make_payload(k) == k

\* The orders in which a build loop inserts the keys 0..MaxBuild: ascending (as the
\* loop of main.c does), descending, and the even keys followed by the odd ones.
NKeys == MaxBuild + 1
Ascending == [j \in 1..NKeys |-> j - 1]
Descending == [j \in 1..NKeys |-> NKeys - j]
EvensOdds ==
    [j \in 1..NKeys |->
        IF j <= (NKeys + 1) \div 2 THEN 2 * (j - 1) ELSE 2 * (j - (NKeys + 1) \div 2) - 1]
BuildOrders == {Ascending, Descending, EvensOdds}

\* The baseline build loop: bt_insert(bt, k, make_payload(k)) for the first n keys k
\* of order.
RECURSIVE BuildTree(_, _, _)
BuildTree(order, n, t) ==
    IF n = 0 THEN bt_create(t)
    ELSE bt_insert(BuildTree(order, n - 1, t), order[n], make_payload(order[n]))

\* The build loop of the hctree mode: hc_insert(idx, k, make_payload(k + first)) for
\* k = 0..n-1.  main.c runs it with first = 0, which stores NULL for key 0.
RECURSIVE BuildIndex(_, _, _)
BuildIndex(i, n, first) ==
    IF n = 0 THEN i
    ELSE hc_insert(BuildIndex(i, n - 1, first), n - 1, make_payload(n - 1 + first))

\* The first w iterations of a query loop that looks up the keys 0..w-1 in turn.
RECURSIVE Queries(_, _)
Queries(i, w) ==
    IF w = 0 THEN i
    ELSE hc_search(Queries(i, w - 1), w - 1).idx

NoCall == [op |-> "none"]

HCParams ==
    [decay_alpha : Alphas, hot_threshold : Thresholds,
     max_hot_fraction : Fractions, inclusive : BOOLEAN]

InitBT ==
    /\ \E order \in BuildOrders, n \in 0..MaxBuild, t \in Degrees :
          LET built == {order[j] : j \in 1..n} IN
          /\ bt = BuildTree(order, n, t)
          /\ nins = [k \in BTKeys |-> IF k \in built THEN 1 ELSE 0]
          /\ lastv = [k \in BTKeys |-> IF k \in built THEN make_payload(k) ELSE NULL]
    /\ call = NoCall
    /\ ret = NULL
    /\ emitted = <<>>
    /\ ninserts = 0
    /\ idx = hc_create(0, 2, [decay_alpha |-> <<0, 1>>, hot_threshold |-> <<0, 1>>,
                              max_hot_fraction |-> <<0, 1>>, inclusive |-> TRUE])
    /\ ncalls = 0

BtInsert ==
    /\ ninserts < MaxInserts
    /\ \E k \in BTKeys, v \in Payloads :
          /\ bt' = bt_insert(bt, k, v)
          /\ nins' = [nins EXCEPT ![k] = @ + 1]
          /\ lastv' = [lastv EXCEPT ![k] = v]
          /\ call' = [op |-> "bt_insert", k |-> k, v |-> v, before |-> bt_count_keys(bt)]
    /\ ninserts' = ninserts + 1
    /\ ret' = NULL
    /\ emitted' = <<>>
    /\ UNCHANGED <<idx, ncalls>>

BtSearch ==
    /\ \E k \in BTKeys :
          /\ ret' = bt_search(bt, k).v
          /\ call' = [op |-> "bt_search", k |-> k]
    /\ emitted' = <<>>
    /\ UNCHANGED <<bt, nins, lastv, ninserts, idx, ncalls>>

BtRangeSearch ==
    /\ \E w \in BTRanges :
          /\ emitted' = bt_range_search(bt, w[1], w[2]).out
          /\ call' = [op |-> "bt_range_search", lo |-> w[1], hi |-> w[2]]
    /\ ret' = NULL
    /\ UNCHANGED <<bt, nins, lastv, ninserts, idx, ncalls>>

NextBT == BtInsert \/ BtSearch \/ BtRangeSearch

SpecBT == InitBT /\ [][NextBT]_vars

\* The index after hc_create, a build of the keys 0..n-1 (none, all but the last, or
\* all of them as main.c does) and, possibly, one query of each key built.
Init ==
    /\ \E p \in HCParams, t \in Degrees, n \in {0, MaxKey, MaxKey + 1},
          first \in {0, 1}, queried \in BOOLEAN :
          LET w == IF queried THEN n ELSE 0 IN
          /\ idx = Queries(BuildIndex(hc_create(MaxKey, t, p), n, first), w)
          /\ nins = [k \in HCKeys |-> IF k >= 0 /\ k < n THEN 1 ELSE 0]
          /\ lastv = [k \in HCKeys |-> IF k >= 0 /\ k < n THEN make_payload(k + first) ELSE NULL]
    /\ call = NoCall
    /\ ret = NULL
    /\ emitted = <<>>
    /\ ncalls = 0
    /\ bt = bt_create(2)
    /\ ninserts = 0

HcInsert ==
    /\ ncalls < MaxOps
    /\ \E k \in HCKeys, v \in Payloads :
          /\ idx' = hc_insert(idx, k, v)
          /\ nins' = [nins EXCEPT ![k] = @ + 1]
          /\ lastv' = [lastv EXCEPT ![k] = v]
          /\ call' = [op |-> "hc_insert", k |-> k, v |-> v]
    /\ ret' = NULL
    /\ emitted' = <<>>
    /\ ncalls' = ncalls + 1
    /\ UNCHANGED <<bt, ninserts>>

HcSearch ==
    /\ ncalls < MaxOps
    /\ \E k \in HCKeys :
          /\ idx' = hc_search(idx, k).idx
          /\ ret' = hc_search(idx, k).ret
          /\ call' = [op |-> "hc_search", k |-> k]
    /\ emitted' = <<>>
    /\ ncalls' = ncalls + 1
    /\ UNCHANGED <<bt, ninserts, nins, lastv>>

HcRangeSearch ==
    /\ ncalls < MaxOps
    /\ \E w \in HCRanges :
          /\ idx' = hc_range_search(idx, w[1], w[2]).idx
          /\ emitted' = hc_range_search(idx, w[1], w[2]).out
          /\ call' = [op |-> "hc_range_search", lo |-> w[1], hi |-> w[2]]
    /\ ret' = NULL
    /\ ncalls' = ncalls + 1
    /\ UNCHANGED <<bt, ninserts, nins, lastv>>

Next == HcInsert \/ HcSearch \/ HcRangeSearch

Spec == Init /\ [][Next]_vars

\* The hctree mode of main: hc_create(nkeys - 1, btree_degree, params) with
\* params.inclusive = 1, the build loop over k = 0..nkeys-1, then the query loop.
\* ninserts is the loop variable k of the build loop, ncalls the q of the query loop.
\* main fixes btree_degree at 32; the small degrees here let nodes split with few keys.
MainParams ==
    [decay_alpha : Alphas, hot_threshold : Thresholds,
     max_hot_fraction : Fractions, inclusive : {TRUE}]

InitMain ==
    /\ \E p \in MainParams, t \in Degrees, nkeys \in 1..(MaxKey + 1) :
          idx = hc_create(nkeys - 1, t, p)
    /\ nins = [k \in HCKeys |-> 0]
    /\ lastv = [k \in HCKeys |-> NULL]
    /\ call = NoCall
    /\ ret = NULL
    /\ emitted = <<>>
    /\ ncalls = 0
    /\ bt = bt_create(2)
    /\ ninserts = 0

\* one iteration of `for (k = 0; k < nkeys; k++) hc_insert(idx, k, make_payload(k))`
MainBuild ==
    /\ ninserts < idx.max_key + 1
    /\ LET k == ninserts
           v == make_payload(k)
       IN  /\ idx' = hc_insert(idx, k, v)
           /\ nins' = [nins EXCEPT ![k] = @ + 1]
           /\ lastv' = [lastv EXCEPT ![k] = v]
           /\ call' = [op |-> "hc_insert", k |-> k, v |-> v]
    /\ ninserts' = ninserts + 1
    /\ ret' = NULL
    /\ emitted' = <<>>
    /\ UNCHANGED <<bt, ncalls>>

\* one iteration of the query loop: k is zipf_sample(zg) or rand_uniform(nkeys), a key
\* of [0, nkeys - 1]
MainQuery ==
    /\ ninserts = idx.max_key + 1
    /\ ncalls < MaxQueries
    /\ \E k \in 0..idx.max_key :
          /\ idx' = hc_search(idx, k).idx
          /\ ret' = hc_search(idx, k).ret
          /\ call' = [op |-> "hc_search", k |-> k]
    /\ emitted' = <<>>
    /\ ncalls' = ncalls + 1
    /\ UNCHANGED <<bt, ninserts, nins, lastv>>

NextMain == MainBuild \/ MainQuery

SpecMain == InitMain /\ [][NextMain]_vars

\* ------------------------------------------------- properties of the OrderedTree
RECURSIVE KeysIn(_), KeysInAll(_, _), Leaves(_, _), LeavesAll(_, _, _), Height(_)
\* all keys stored in the subtree of node
KeysIn(node) ==
    {node.keys[j] : j \in 1..Len(node.keys)}
        \cup (IF node.leaf THEN {} ELSE KeysInAll(node.children, 1))
KeysInAll(children, i) ==
    IF i > Len(children) THEN {}
    ELSE KeysIn(children[i]) \cup KeysInAll(children, i + 1)

\* the depths at which the leaves of the subtree of node sit, node being at depth d
Leaves(node, d) ==
    IF node.leaf THEN {d} ELSE LeavesAll(node.children, 1, d + 1)
LeavesAll(children, i, d) ==
    IF i > Len(children) THEN {}
    ELSE Leaves(children[i], d) \cup LeavesAll(children, i + 1, d)

Height(node) == IF node.leaf THEN 1 ELSE 1 + Height(node.children[1])

RECURSIVE Ordered(_)
\* keys strictly increasing within each node, children[i] below keys[i] below children[i+1]
Ordered(node) ==
    /\ \A j \in 1..(Len(node.keys) - 1) : node.keys[j] < node.keys[j + 1]
    /\ node.leaf \/
          /\ \A j \in 1..Len(node.keys) :
                /\ j <= Len(node.children)
                      => \A q \in KeysIn(node.children[j]) : q < node.keys[j]
                /\ j + 1 <= Len(node.children)
                      => \A q \in KeysIn(node.children[j + 1]) : q > node.keys[j]
          /\ \A j \in 1..Len(node.children) : Ordered(node.children[j])

RECURSIVE Shaped(_, _, _)
\* key and child counts of every node of the subtree
Shaped(node, isRoot, t) ==
    /\ Len(node.keys) <= 2 * t - 1
    /\ Len(node.values) = Len(node.keys)
    /\ isRoot \/ Len(node.keys) >= t - 1
    /\ IF node.leaf
       THEN Len(node.children) = 0
       ELSE /\ Len(node.children) = Len(node.keys) + 1
            /\ \A j \in 1..Len(node.children) : Shaped(node.children[j], FALSE, t)

\* the pairs a range scan of [lo, hi] has to emit, in order, going by the insert history
RECURSIVE Expected(_, _)
Expected(lo, hi) ==
    IF lo > hi THEN <<>>
    ELSE (IF nins[lo] > 0 THEN <<(<<lo, lastv[lo]>>)>> ELSE <<>>) \o Expected(lo + 1, hi)

DistinctInserts == \A k \in DOMAIN nins : nins[k] <= 1

\* C2: an insert of a key inserted before replaces its payload (a later search of the
\* key returns the payload of its last insert) and leaves bt_count_keys unchanged.
C2_Upsert ==
    /\ (call.op = "bt_search" /\ nins[call.k] >= 2) => ret = lastv[call.k]
    /\ (call.op = "bt_insert" /\ nins[call.k] >= 2) => bt_count_keys(bt) = call.before

\* C3: on a tree built from distinct keys, bt_range_search(lo, hi) calls back exactly
\* once per stored pair with lo <= k <= hi, for nothing else, in increasing key order.
C3_RangeScan ==
    (call.op = "bt_range_search" /\ DistinctInserts)
        => emitted = Expected(call.lo, call.hi)

\* C8: keys are strictly increasing within every node and every subtree lies strictly
\* between the keys around it, so no key occurs twice (inserts may repeat keys).
C8_KeyOrdering == Ordered(bt.root)

\* C9: every node holds at most 2t-1 keys (no insert writes into a full node), every
\* non-root node at least t-1, an internal node has nkeys+1 children, and all the
\* leaves are at the same depth.
C9_Shape ==
    /\ bt.t >= 2
    /\ Shaped(bt.root, TRUE, bt.t)
    /\ Cardinality(Leaves(bt.root, 0)) = 1

\* C9 witness: an insert has split an internal root, the tree is three levels high.
C9_Witness ==
    /\ call.op = "bt_insert"
    /\ Height(bt.root) = 3
    /\ bt_count_keys(bt) > call.before

\* C10: bt_search(k) returns v for a pair (k, v) whose key was inserted exactly once,
\* and the absent sentinel for a key never inserted.
C10_SearchTotality ==
    call.op = "bt_search" =>
        /\ nins[call.k] = 1 => ret = lastv[call.k]
        /\ nins[call.k] = 0 => ret = NULL

\* ------------------------------------------------- properties of the TieredIndex
HotKeys == KeysIn(idx.hot.root)
ColdKeys == KeysIn(idx.cold.root)
InRange(k) == k >= 0 /\ k <= idx.max_key

\* every insert so far named an in-range key not named before and passed a payload
\* other than the sentinel
DistinctBuild ==
    \A k \in DOMAIN nins :
        /\ nins[k] <= 1
        /\ nins[k] = 1 => (InRange(k) /\ lastv[k] # NULL)

\* C1: after hc_insert of N distinct in-range keys with non-sentinel payloads,
\* hc_search(k) returns the payload inserted for k, whatever searches and promotions
\* came before, and absent for a key never inserted; cold holds N keys.
C1_RoundTrip ==
    DistinctBuild =>
        /\ call.op = "hc_search"
              => ret = (IF nins[call.k] = 1 THEN lastv[call.k] ELSE NULL)
        /\ bt_count_keys(idx.cold) = Cardinality({k \in DOMAIN nins : nins[k] = 1})

\* C1 witness: a search answered from hot, after promotions, on an index of four
\* distinct keys.
C1_Witness ==
    /\ DistinctBuild
    /\ call.op = "hc_search"
    /\ ret # NULL
    /\ call.k \in HotKeys
    /\ idx.stats.hot_hits >= 1
    /\ bt_count_keys(idx.cold) >= 4

\* C4: the number of keys in hot is at most floor(max_hot_fraction * (max_key + 1)).
C4_HotCapacity ==
    LET f == idx.params.max_hot_fraction
    IN  bt_count_keys(idx.hot) <= (f[1] * (idx.max_key + 1)) \div f[2]

\* C5: in inclusive mode every key present in hot is present in cold with an equal
\* payload.
C5_InclusivePayload ==
    idx.params.inclusive =>
        \A k \in HotKeys :
            /\ k \in ColdKeys
            /\ bt_search(idx.cold, k).v = bt_search(idx.hot, k).v

\* C6: in inclusive mode the keys of hot are a subset of the keys of cold.
C6_InclusiveContainment ==
    idx.params.inclusive => HotKeys \subseteq ColdKeys

\* C7: hc_range_search(lo, hi) calls the user callback exactly once for every key in
\* [lo, hi] present in hot or in cold, and for no other key.
C7_TieredRange ==
    call.op = "hc_range_search" =>
        LET want == {k \in HotKeys \cup ColdKeys : call.lo <= k /\ k <= call.hi}
        IN  /\ {emitted[j][1] : j \in 1..Len(emitted)} = want
            /\ Len(emitted) = Cardinality(want)

\* C7 witness: a scan that met a promoted key and a cold-only key, where the scan of
\* cold alone called back more than once for some key.
C7_Witness ==
    /\ call.op = "hc_range_search"
    /\ \E k \in HotKeys : call.lo <= k /\ k <= call.hi
    /\ \E k \in ColdKeys \ HotKeys : call.lo <= k /\ k <= call.hi
    /\ Len(bt_range_search(idx.cold, call.lo, call.hi).out) > Len(emitted)

\* the hot tier holds at least max_hot_fraction * (max_key + 1) keys
AtCapacity ==
    LET f == idx.params.max_hot_fraction
    IN  bt_count_keys(idx.hot) * f[2] >= f[1] * (idx.max_key + 1)

\* the step is a call of hc_search
IsSearch == call'.op = "hc_search"
\* the step is a call of hc_insert
IsInsert == call'.op = "hc_insert"
\* the step is a call of hc_range_search
IsRange == call'.op = "hc_range_search"

\* C11: in inclusive mode, a search of an in-range key that is in cold and not in hot
\* leaves the key in hot if and only if the score it gave the key is at least
\* hot_threshold and hot was below capacity when the search ran.
C11_PromotionTiming ==
    [][(/\ IsSearch
        /\ idx.params.inclusive
        /\ InRange(call'.k)
        /\ call'.k \in ColdKeys \ HotKeys)
       => LET k     == call'.k
              score == idx'.hit_score[k]
              thr   == idx.params.hot_threshold
          IN  (k \in HotKeys') <=> (score[1] * thr[2] >= thr[1] * score[2] /\ ~AtCapacity)]_vars

\* C11 witness: the second search of a key promoted it (threshold 1.5, decay 0.5: the
\* first search left the score at 1, below the threshold).
C11_Witness ==
    /\ call.op = "hc_search"
    /\ idx.params.inclusive
    /\ idx.params.hot_threshold = <<3, 2>>
    /\ InRange(call.k)
    /\ idx.hit_score[call.k] = <<3, 2>>
    /\ call.k \in HotKeys
    /\ idx.stats.hot_hits = 0

\* C12: for every hc_search, one that attempts a promotion included, the increase of
\* hot_node_visits plus the increase of cold_node_visits is the number of nodes of hot
\* and cold the call visited.
C12_VisitAccounting ==
    [][IsSearch =>
          (idx'.stats.hot_node_visits - idx.stats.hot_node_visits)
            + (idx'.stats.cold_node_visits - idx.stats.cold_node_visits)
          = hc_search_node_visits(idx, call'.k)]_vars

\* C13: hc_insert(k, v) with k < 0 or k > max_key leaves both trees, every score and
\* every stats counter unchanged, and hc_search of such a key returns absent.
C13_OutOfRangeInsert ==
    [][/\ (IsInsert /\ ~InRange(call'.k)) => idx' = idx
       /\ (IsSearch /\ ~InRange(call'.k)) => ret' = NULL]_vars

\* C13 witness: a search of an out-of-range key that an earlier hc_insert was given.
C13_Witness ==
    /\ call.op = "hc_search"
    /\ ~InRange(call.k)
    /\ nins[call.k] >= 1
    /\ ret = NULL
    /\ idx.stats.not_found >= 1

\* C14: queries = hot_hits + cold_hits + not_found in every state; an hc_search adds
\* one to queries and to exactly one of the three others; no other call changes any
\* of the four.
C14_StatsPartition ==
    /\ [](idx.stats.queries
            = idx.stats.hot_hits + idx.stats.cold_hits + idx.stats.not_found)
    /\ [][LET a == idx.stats
              b == idx'.stats
              d == <<b.hot_hits - a.hot_hits, b.cold_hits - a.cold_hits,
                     b.not_found - a.not_found>>
          IN  IF IsSearch
              THEN /\ b.queries = a.queries + 1
                   /\ d \in {<<1, 0, 0>>, <<0, 1, 0>>, <<0, 0, 1>>}
              ELSE /\ b.queries = a.queries
                   /\ d = <<0, 0, 0>>]_vars

\* C14 witness: searches have ended in each of the three ways.
C14_Witness ==
    /\ call.op = "hc_search"
    /\ idx.stats.hot_hits >= 1
    /\ idx.stats.cold_hits >= 1
    /\ idx.stats.not_found >= 1

\* C15: a key in hot stays in hot, and an hc_search of a key in hot adds one to
\* hot_hits, leaves cold_hits, not_found and cold_node_visits as they were and does
\* not change hot.
C15_HotHitsBypassCold ==
    [][/\ HotKeys \subseteq HotKeys'
       /\ (IsSearch /\ call'.k \in HotKeys)
             => /\ idx'.stats.hot_hits = idx.stats.hot_hits + 1
                /\ idx'.stats.cold_hits = idx.stats.cold_hits
                /\ idx'.stats.not_found = idx.stats.not_found
                /\ idx'.stats.cold_node_visits = idx.stats.cold_node_visits
                /\ idx'.hot = idx.hot]_vars

\* C15 witness: a promoted key has been searched twice since its promotion.
C15_Witness ==
    /\ call.op = "hc_search"
    /\ call.k \in HotKeys
    /\ idx.stats.hot_hits >= 2
    /\ idx.stats.cold_node_visits >= 1

RECURSIVE Entries(_), EntriesAll(_, _)
\* the (key, payload) pairs stored in the subtree of node
Entries(node) ==
    {<<node.keys[j], node.values[j]>> : j \in 1..Len(node.keys)}
        \cup (IF node.leaf THEN {} ELSE EntriesAll(node.children, 1))
EntriesAll(children, i) ==
    IF i > Len(children) THEN {}
    ELSE Entries(children[i]) \cup EntriesAll(children, i + 1)

\* C16: once hot holds at least max_hot_fraction * (max_key + 1) keys no call changes
\* hot; from then on a search of a key held by cold only, whose score meets the
\* threshold, is a cold hit that leaves the key out of hot.
C16_CapacityFreeze ==
    [][AtCapacity =>
          /\ idx'.hot = idx.hot
          /\ (/\ IsSearch
              /\ InRange(call'.k)
              /\ call'.k \in ColdKeys \ HotKeys
              /\ Ge(idx'.hit_score[call'.k], idx.params.hot_threshold))
                => /\ call'.k \notin HotKeys'
                   /\ idx'.stats.cold_hits = idx.stats.cold_hits + 1
                   /\ idx'.stats.hot_hits = idx.stats.hot_hits]_vars

\* C16 witness: hot is full with two keys (max_hot_fraction 0.375 of four keys) and a
\* search has just found a key that is in cold only and has reached the threshold.
C16_Witness ==
    /\ idx.params.inclusive
    /\ idx.params.max_hot_fraction = <<3, 8>>
    /\ bt_count_keys(idx.hot) = 2
    /\ call.op = "hc_search"
    /\ InRange(call.k)
    /\ call.k \in ColdKeys \ HotKeys
    /\ ret # NULL
    /\ Ge(idx.hit_score[call.k], idx.params.hot_threshold)

\* C17: hc_search(k) leaves cold as it was; hot is either unchanged or gains the one
\* entry (k, payload that cold returns for k) for a key k it did not hold, every other
\* entry staying as it was.
C17_SearchFrame ==
    [][IsSearch =>
          /\ idx'.cold = idx.cold
          /\ \/ idx'.hot = idx.hot
             \/ /\ call'.k \notin HotKeys
                /\ Entries(idx'.hot.root)
                     = Entries(idx.hot.root)
                         \cup {<<call'.k, bt_search(idx.cold, call'.k).v>>}
                /\ bt_count_keys(idx'.hot) = bt_count_keys(idx.hot) + 1]_vars

\* C17 witness: a search has promoted its key into a hot tier that held another key.
C17_Witness ==
    /\ call.op = "hc_search"
    /\ call.k \in HotKeys
    /\ idx.stats.hot_hits = 0
    /\ bt_count_keys(idx.hot) >= 2
    /\ bt_search(idx.hot, call.k).v = bt_search(idx.cold, call.k).v

\* C18: hc_insert(k, v) with 0 <= k <= max_key changes cold only: hot, every score and
\* every stats counter are as before, also when k is in hot.
C18_InsertFrame ==
    [][(IsInsert /\ InRange(call'.k)) =>
          /\ idx' = [idx EXCEPT !.cold = idx'.cold]
          /\ idx'.cold = bt_insert(idx.cold, call'.k, call'.v)]_vars

\* C18 witness: an insert of a key that is in hot and has a score.
C18_Witness ==
    /\ call.op = "hc_insert"
    /\ InRange(call.k)
    /\ call.k \in HotKeys
    /\ idx.hit_score[call.k] # <<0, 1>>
    /\ bt_search(idx.cold, call.k).v = call.v

\* C19: a search that finds an in-range key k sets score[k] to decay_alpha * score[k] + 1
\* and changes no other score; a search that finds nothing, and any other call, changes
\* no score; every score is >= 0, and all scores are 0 while no search has found a key.
C19_ScoreUpdate ==
    /\ [](/\ \A k \in DOMAIN idx.hit_score :
                idx.hit_score[k][1] >= 0 /\ idx.hit_score[k][2] > 0
          /\ (idx.stats.hot_hits + idx.stats.cold_hits = 0)
                => \A k \in DOMAIN idx.hit_score : idx.hit_score[k] = <<0, 1>>)
    /\ [][IF IsSearch /\ ret' # NULL /\ InRange(call'.k)
          THEN LET a   == idx.params.decay_alpha
                   old == idx.hit_score[call'.k]
               IN  idx'.hit_score =
                       [idx.hit_score EXCEPT
                           ![call'.k] = Frac(a[1] * old[1] + a[2] * old[2], a[2] * old[2])]
          ELSE idx'.hit_score = idx.hit_score]_vars

\* C19 witness: a key found twice with decay_alpha 0.5 has score 1.5, next to a key
\* never found whose score is 0.
C19_Witness ==
    /\ call.op = "hc_search"
    /\ ret # NULL
    /\ InRange(call.k)
    /\ idx.params.decay_alpha = <<1, 2>>
    /\ idx.hit_score[call.k] = <<3, 2>>
    /\ \E k \in ColdKeys : idx.hit_score[k] = <<0, 1>>

\* C20: hc_range_search changes hot_node_visits and cold_node_visits only: both trees,
\* every score and queries, hot_hits, cold_hits, not_found are as before.
C20_RangeFrame ==
    [][IsRange =>
          idx' = [idx EXCEPT !.stats.hot_node_visits = idx'.stats.hot_node_visits,
                             !.stats.cold_node_visits = idx'.stats.cold_node_visits]]_vars

\* C20 witness: on an index whose hot tier has room, a scan that called back for a
\* promoted key and for a cold-only key that has a score.
C20_Witness ==
    /\ call.op = "hc_range_search"
    /\ idx.params.inclusive
    /\ ~AtCapacity
    /\ idx.stats.cold_node_visits >= 1
    /\ \E j \in 1..Len(emitted) : emitted[j][1] \in HotKeys
    /\ \E j \in 1..Len(emitted) :
          /\ emitted[j][1] \in ColdKeys \ HotKeys
          /\ idx.hit_score[emitted[j][1]] # <<0, 1>>

\* C21: within one hc_range_search every callback for a key present in hot comes
\* before every callback for a key present in cold only, and a key present in both
\* tiers is passed with the payload stored in hot.
C21_TierOrder ==
    call.op = "hc_range_search" =>
        /\ \A a, b \in 1..Len(emitted) :
              (emitted[a][1] \in HotKeys /\ emitted[b][1] \in ColdKeys \ HotKeys) => a < b
        /\ \A a \in 1..Len(emitted) :
              emitted[a][1] \in HotKeys
                 => emitted[a][2] = bt_search(idx.hot, emitted[a][1]).v

\* C21 witness: a scan called back for a promoted key before a smaller key that is in
\* cold only, and passed the hot payload of a key whose cold payload differs.
C21_Witness ==
    /\ call.op = "hc_range_search"
    /\ \E a, b \in 1..Len(emitted) :
          /\ a < b
          /\ emitted[a][1] \in HotKeys
          /\ emitted[b][1] \in ColdKeys \ HotKeys
          /\ emitted[a][1] > emitted[b][1]
    /\ \E a \in 1..Len(emitted) :
          /\ emitted[a][1] \in HotKeys
          /\ bt_search(idx.cold, emitted[a][1]).v # emitted[a][2]

\* C22: an index with inclusive = false is rejected: it accepts no insert (cold holds
\* no key) and answers no search (none is a hit, none returns a payload).
C22_ReservedMode ==
    ~idx.params.inclusive =>
        /\ ColdKeys = {}
        /\ idx.stats.hot_hits + idx.stats.cold_hits = 0
        /\ call.op = "hc_search" => ret = NULL

\* C23: in the driver's hctree run no payload stored by the build is the absent
\* sentinel, every hc_search of the query loop returns a payload, and not_found
\* stays 0.
C23_DriverRetrievable ==
    /\ \A e \in Entries(idx.cold.root) : e[2] # NULL
    /\ call.op = "hc_search" => ret # NULL
    /\ idx.stats.not_found = 0

====
